---- MODULE Spec2Model ----
(***************************************************************************)
(* A model of mock_device: the REPL run loop and its nested-loop stack     *)
(* (repl/repl.py), the match-based dispatch (repl/match_based), the        *)
(* command layer and its @command / @handler decorators                    *)
(* (repl/command_based.py), the line parser (parse_command.py) and the     *)
(* loop classes and commands of examples/server.py.                        *)
(*                                                                         *)
(* Text.  A string is a sequence of characters.  An element of WordChars   *)
(* stands for a run of ordinary characters (neither whitespace, quote nor  *)
(* backslash), so the token "configure" is <<"configure">> and the line    *)
(* `configure terminal` is <<"configure", " ", "terminal">>.               *)
(***************************************************************************)
EXTENDS Integers, Sequences, FiniteSets, TLC

\* ------------------------------------------------------------------ bounds

\* Longest input line, in characters.
MaxLineLen == 3

\* Deepest stack of nested loops.
MaxDepth == 3

\* Most @handler methods in the declared command class.
MaxHandlers == 2

\* ------------------------------------------------------------- characters

\* Python's Optional: None, or Some(x) for a value x that is not None.
None == {}

Some(x) == {x}

The(optional) == CHOOSE x \in optional : TRUE

WordChars == {"exit", "configure", "terminal"}

\* shlex.whitespace, shlex.quotes, shlex.escape, shlex.escapedquotes
Whitespace == {" "}

Quotes == {"\"", "'"}

Escape == {"\\"}

EscapedQuotes == {"\""}

\* The characters a client types.
Chars == WordChars \cup {" ", "\""}

\* The failures of the parser: shlex's "No closing quotation" and
\* "No escaped character" (both ValueError), and shell_command[0] of an
\* empty list.
ValueError == "ValueError"

IndexError == "IndexError"

\* What a call gives: the value it returns, or the exception it raises.
Return(value) == [raised |-> "", value |-> value]

Raise(exception) == [raised |-> exception, value |-> <<>>]

\* --------------------------------------------------- str.strip, shlex.split

RECURSIVE lstrip(_)
lstrip(s) ==
    IF s # <<>> /\ Head(s) \in Whitespace THEN lstrip(Tail(s)) ELSE s

RECURSIVE rstrip(_)
rstrip(s) ==
    IF s # <<>> /\ s[Len(s)] \in Whitespace
    THEN rstrip(SubSeq(s, 1, Len(s) - 1))
    ELSE s

strip(s) == rstrip(lstrip(s))

\* shlex.shlex(s, posix=True) with whitespace_split=True and no commenters,
\* read to the end: the tokens of s, or ValueError.  state is "ws" (shlex's
\* ' '), "word" (shlex's 'a'), an opening quote, or the escape character;
\* quoted says that the token under construction had a quoted part, so that
\* an empty token '' is still a token.
RECURSIVE read_tokens(_, _, _, _, _, _, _)
read_tokens(s, i, state, escapedstate, token, quoted, out) ==
    IF i > Len(s)
    THEN CASE state \in Quotes -> Raise(ValueError)
           [] state \in Escape -> Raise(ValueError)
           [] state = "word" ->
                Return(IF token # <<>> \/ quoted THEN Append(out, token) ELSE out)
           [] OTHER -> Return(out)
    ELSE LET nextchar == s[i] IN
         CASE state = "ws" ->
                IF nextchar \in Whitespace
                THEN read_tokens(s, i + 1, "ws", escapedstate, <<>>, FALSE, out)
                ELSE IF nextchar \in Escape
                THEN read_tokens(s, i + 1, nextchar, "word", <<>>, FALSE, out)
                ELSE IF nextchar \in Quotes
                THEN read_tokens(s, i + 1, nextchar, escapedstate, <<>>, FALSE, out)
                ELSE read_tokens(s, i + 1, "word", escapedstate, <<nextchar>>, FALSE, out)
           [] state \in Quotes ->
                IF nextchar = state
                THEN read_tokens(s, i + 1, "word", escapedstate, token, TRUE, out)
                ELSE IF nextchar \in Escape /\ state \in EscapedQuotes
                THEN read_tokens(s, i + 1, nextchar, state, token, TRUE, out)
                ELSE read_tokens(s, i + 1, state, escapedstate,
                                 Append(token, nextchar), TRUE, out)
           [] state \in Escape ->
                LET kept == IF escapedstate \in Quotes /\ nextchar # state
                               /\ nextchar # escapedstate
                            THEN <<state>> ELSE <<>>
                IN read_tokens(s, i + 1, escapedstate, escapedstate,
                               token \o kept \o <<nextchar>>, quoted, out)
           [] OTHER ->
                IF nextchar \in Whitespace
                THEN IF token # <<>> \/ quoted
                     THEN read_tokens(s, i + 1, "ws", escapedstate, <<>>, FALSE,
                                      Append(out, token))
                     ELSE read_tokens(s, i + 1, "ws", escapedstate, <<>>, FALSE, out)
                ELSE IF nextchar \in Quotes
                THEN read_tokens(s, i + 1, nextchar, escapedstate, token, quoted, out)
                ELSE IF nextchar \in Escape
                THEN read_tokens(s, i + 1, nextchar, "word", token, quoted, out)
                ELSE read_tokens(s, i + 1, "word", escapedstate,
                                 Append(token, nextchar), quoted, out)

shlex_split(s) == read_tokens(s, 1, "ws", "ws", <<>>, FALSE, <<>>)

\* parse_command(line): the Command (command_word, arguments), or the
\* exception it raises.
parse_command(line) ==
    LET shell_command == shlex_split(strip(line)) IN
    IF shell_command.raised # "" THEN shell_command
    ELSE IF shell_command.value = <<>> THEN Raise(IndexError)
    ELSE Return([command_word |-> Head(shell_command.value),
                 arguments |-> Tail(shell_command.value)])

\* ----------------------------------------------------------------- matchers

\* A token of ordinary characters.
tok(w) == <<w>>

\* match_on_cmd(expected_cmd) and match_on_cmd_starts_with(*expected_cmd):
\* the matcher objects.  expected_cmd is the tuple of expected tokens (one
\* token for match_on_cmd).
match_on_cmd(expected_cmd) ==
    [kind |-> "match_on_cmd", expected_cmd |-> <<expected_cmd>>]

match_on_cmd_starts_with(expected_cmd) ==
    [kind |-> "match_on_cmd_starts_with", expected_cmd |-> expected_cmd]

\* s[:n] taken as the whole of s.
SliceWhole(s, n) == s

\* s[:n]
Slice(s, n) == SubSeq(s, 1, IF n < Len(s) THEN n ELSE Len(s))

\* matcher(cmd, args): _Matcher.__call__ of either kind.
Call(matcher, cmd, args) ==
    IF matcher.kind = "match_on_cmd"
    THEN cmd = matcher.expected_cmd[1]
    ELSE LET entire_cmd == <<cmd>> \o args
             parts_to_match == Slice(entire_cmd, Len(matcher.expected_cmd))
         IN parts_to_match = matcher.expected_cmd

\* ------------------------------------------------- @handler and @command

\* HandlerData of one method decorated with @handler, with the method's name.
HandlerDecl(method_name, order, matcher) ==
    [method_name |-> method_name, order |-> order, matcher |-> matcher]

\* The names of the handler methods, in the order of Python's string
\* comparison (the order inspect.getmembers sorts by).
MethodNames ==
    << "handle_configure", "handle_configure_terminal", "handle_disable",
       "handle_enable", "handle_end", "handle_exit", "handle_help",
       "handle_no_snmp", "handle_snmp" >>

NameRank(method_name) ==
    CHOOSE i \in 1..Len(MethodNames) : MethodNames[i] = method_name

\* sorted(entries, key=...): Python's stable sort, by insertion.  keys[i] is
\* the key of entries[i]; an entry goes after the entries whose key is not
\* greater than its own.
RECURSIVE insert_sorted(_, _, _, _)
insert_sorted(done, done_keys, e, k) ==
    IF done = <<>> THEN <<e>>
    ELSE IF Head(done_keys) <= k
    THEN <<Head(done)>> \o insert_sorted(Tail(done), Tail(done_keys), e, k)
    ELSE <<e>> \o done

RECURSIVE sorted_keys(_)
sorted_keys(keys) ==
    IF keys = <<>> THEN <<>>
    ELSE LET n == Len(keys)
             front == sorted_keys(SubSeq(keys, 1, n - 1))
         IN insert_sorted(front, front, keys[n], keys[n])

RECURSIVE sorted(_, _)
sorted(entries, keys) ==
    IF entries = <<>> THEN <<>>
    ELSE LET n == Len(entries)
             front_keys == SubSeq(keys, 1, n - 1)
         IN insert_sorted(sorted(SubSeq(entries, 1, n - 1), front_keys),
                          sorted_keys(front_keys), entries[n], keys[n])

\* getmembers as the class's own namespace gives its methods (vars(clazz)):
\* in declaration order.
getmembers_as_declared(body) == body

\* inspect.getmembers(clazz, predicate): the decorated methods of the class,
\* sorted by name.  body is the class body, its methods in declaration order.
getmembers(body) ==
    sorted(body, [i \in 1..Len(body) |-> NameRank(body[i].method_name)])

\* The exception command._decorator raises.
ConfigError == "Exception"

\* command._decorator without the test that raises: a class body that marks
\* only some handlers with an order is taken as it comes.
command_unchecked(body) ==
    LET handlers_with_data == getmembers(body)
        n == Len(handlers_with_data)
        all_have_order == \A i \in 1..n : handlers_with_data[i].order # None
        ordered == IF all_have_order
                   THEN sorted(handlers_with_data,
                               [i \in 1..n |-> The(handlers_with_data[i].order)])
                   ELSE handlers_with_data
    IN Return([i \in 1..n |-> ordered[i].method_name])

\* command._decorator without the sort: the handlers stay in the order of
\* their names.
command_unsorted(body) ==
    LET handlers_with_data == getmembers(body)
        n == Len(handlers_with_data)
        any_have_order == \E i \in 1..n : handlers_with_data[i].order # None
        all_have_order == \A i \in 1..n : handlers_with_data[i].order # None
    IN IF ~all_have_order /\ any_have_order THEN Raise(ConfigError)
       ELSE Return([i \in 1..n |-> handlers_with_data[i].method_name])

\* command(...)._decorator(clazz): handler_method_names of the wrapped class,
\* or the exception raised while the class is being declared.
command(body) ==
    LET handlers_with_data == getmembers(body)
        n == Len(handlers_with_data)
        any_have_order == \E i \in 1..n : handlers_with_data[i].order # None
        all_have_order == \A i \in 1..n : handlers_with_data[i].order # None
        ordered == IF all_have_order
                   THEN sorted(handlers_with_data,
                               [i \in 1..n |-> The(handlers_with_data[i].order)])
                   ELSE handlers_with_data
    IN IF ~all_have_order /\ any_have_order THEN Raise(ConfigError)
       ELSE Return([i \in 1..n |-> ordered[i].method_name])

\* getattr(method, HANDLER_ATTR_NAME) of the method called method_name.
handler_data(body, method_name) ==
    body[CHOOSE i \in 1..Len(body) : body[i].method_name = method_name]

\* ------------------------------------------------ the command classes

\* The class body of each command class of examples/server.py: its @handler
\* methods in declaration order.
ServerCommands ==
    [ HelpCommand |->
        << HandlerDecl("handle_help", None, match_on_cmd(tok("help"))) >>,
      ExitCommand |->
        << HandlerDecl("handle_exit", None, match_on_cmd(tok("exit"))) >>,
      EndCommand |->
        << HandlerDecl("handle_end", None, match_on_cmd(tok("end"))) >>,
      EnableCommand |->
        << HandlerDecl("handle_enable", None, match_on_cmd(tok("enable"))) >>,
      DisableCommand |->
        << HandlerDecl("handle_disable", None, match_on_cmd(tok("disable"))) >>,
      ConfigureCommand |->
        << HandlerDecl("handle_configure_terminal", Some(1),
                       match_on_cmd_starts_with(<<tok("configure"), tok("terminal")>>)),
           HandlerDecl("handle_configure", Some(2),
                       match_on_cmd(tok("configure"))) >>,
      SnmpCommand |->
        << HandlerDecl("handle_snmp", None, match_on_cmd(tok("snmp"))),
           HandlerDecl("handle_no_snmp", None,
                       match_on_cmd_starts_with(<<tok("no"), tok("snmp")>>)) >> ]

\* An application's own command class, whose body is an input of the model.
DeclaredCommand == "DeclaredCommand"

CommandClasses == DOMAIN ServerCommands \cup {DeclaredCommand}

\* The class body of a command class; declared is the body of DeclaredCommand.
ClassBody(command_class, declared) ==
    IF command_class = DeclaredCommand THEN declared
    ELSE ServerCommands[command_class]

\* The method names, orders and matchers a declared class body is made of.
DeclNames == {"handle_configure", "handle_configure_terminal", "handle_exit"}

Orders == {None, Some(1), Some(2)}

DeclMatchers ==
    { match_on_cmd(tok("configure")),
      match_on_cmd_starts_with(<<tok("configure"), tok("terminal")>>) }

\* Every class body of at most MaxHandlers methods with names of their own.
Declarations ==
    LET Decls == { HandlerDecl(n, o, m) : n \in DeclNames, o \in Orders,
                                           m \in DeclMatchers }
    IN UNION { { body \in [1..k -> Decls] :
                   \A i, j \in 1..k :
                       i # j => body[i].method_name # body[j].method_name }
               : k \in 0..MaxHandlers }

\* The body DeclaredCommand has where it is not an input: ConfigureCommand's.
DefaultDeclared == ServerCommands.ConfigureCommand

\* --------------------------------------------------------- the loop classes

\* class -> its base class.  DerivedRepl is an application's own subclass of
\* CommandBasedRepl that overrides register_commands alone, and so keeps the
\* exit_command of Repl.__init__; the others are the repository's.
Base ==
    [ Repl |-> "object",
      MatchBasedRepl |-> "Repl",
      CommandBasedRepl |-> "MatchBasedRepl",
      CiscoRepl |-> "CommandBasedRepl",
      TopLevelRepl |-> "CiscoRepl",
      ConfigureTerminalRepl |-> "CiscoRepl",
      DerivedRepl |-> "CommandBasedRepl" ]

AllClasses == DOMAIN Base

\* The classes the model builds loops of.
ReplClasses == {"TopLevelRepl", "ConfigureTerminalRepl", "DerivedRepl"}

\* The classes handlers exit to: those, and a base class of two of them.
TargetClasses == ReplClasses \cup {"CiscoRepl"}

RECURSIVE Mro(_)
Mro(cls) == IF cls = "object" THEN {} ELSE {cls} \cup Mro(Base[cls])

\* isinstance as a comparison of the object's own class (type(obj) is clazz).
isinstance_exact(cls, clazz) == cls = clazz

\* isinstance(obj, clazz) for an object of class cls.
isinstance(cls, clazz) == clazz \in Mro(cls)

\* cls.register_commands(self, register): the command classes registered,
\* in the order of the register calls.
RECURSIVE register_commands(_)
register_commands(cls) ==
    CASE cls = "CiscoRepl" -> <<"ExitCommand", "HelpCommand">>
      [] cls = "TopLevelRepl" ->
            register_commands("CiscoRepl")
                \o <<"EnableCommand", "DisableCommand", "ConfigureCommand">>
      [] cls = "ConfigureTerminalRepl" ->
            register_commands("CiscoRepl") \o <<"SnmpCommand", "EndCommand">>
      [] cls = "DerivedRepl" -> <<"ExitCommand", DeclaredCommand>>
      [] OTHER -> <<>>

\* The exit_command the constructor of cls hands to Repl.__init__.
ExitCommandOf(cls) ==
    IF isinstance(cls, "CiscoRepl") THEN None ELSE Some(tok("exit"))

\* _wrapped_handler bound to the loop's parent where the loop has one, as a
\* wrapper shared down the stack of loops would be.
command_handlers_parent(self, k, body, handler_method_names) ==
    [ i \in 1..Len(handler_method_names) |->
        [ matcher |-> handler_data(body, handler_method_names[i]).matcher,
          handler |-> [ self |-> IF self > 1 THEN self - 1 ELSE self,
                        command |-> k,
                        method |-> handler_method_names[i] ] ] ]

\* _Wrapped.register_handlers of the k-th command of loop self: one
\* KnownMatcher per name of handler_method_names, in that order.  The handler
\* is _wrapped_handler: the command's bound method with the loop it is
\* registered in.
command_handlers(self, k, body, handler_method_names) ==
    [ i \in 1..Len(handler_method_names) |->
        [ matcher |-> handler_data(body, handler_method_names[i]).matcher,
          handler |-> [ self |-> self, command |-> k,
                        method |-> handler_method_names[i] ] ] ]

\* register_handlers going through self.commands from the last to the first.
RECURSIVE register_handlers_reversed(_, _, _, _, _)
register_handlers_reversed(self, commands, k, declared, names) ==
    IF k > Len(commands) THEN <<>>
    ELSE register_handlers_reversed(self, commands, k + 1, declared, names)
             \o command_handlers(self, k, ClassBody(commands[k], declared),
                                 names[commands[k]])

\* CommandBasedRepl.register_handlers: the pairs of every command of
\* self.commands, appended to self.matchers command by command.
RECURSIVE register_handlers(_, _, _, _, _)
register_handlers(self, commands, k, declared, names) ==
    IF k > Len(commands) THEN <<>>
    ELSE command_handlers(self, k, ClassBody(commands[k], declared),
                          names[commands[k]])
             \o register_handlers(self, commands, k + 1, declared, names)

\* repl_class(client, prompt, parent_repl=parent_repl): the constructors of
\* CommandBasedRepl, MatchBasedRepl and Repl.  self is the new object's
\* identity, names the handler_method_names of every command class.
NewRepl(self, cls, client, prompt, parent_repl, declared, names) ==
    LET commands == register_commands(cls) IN
    [ class |-> cls,
      commands |-> commands,
      exit_command |-> ExitCommandOf(cls),
      client |-> client,
      prompt |-> prompt,
      running |-> TRUE,
      parent_repl |-> parent_repl,
      matchers |-> register_handlers(self, commands, 1, declared, names) ]

\* ------------------------------------------------------ the loop operations

\* exit as a toggle of the flag.
exit_toggle(repl) == [repl EXCEPT !.running = ~@]

\* Repl.exit
exit(repl) == [repl EXCEPT !.running = FALSE]

\* exit_to_repl_class that tests the type after exiting the loop (a do-while).
RECURSIVE exit_to_repl_class_inclusive(_, _, _)
exit_to_repl_class_inclusive(loops, current, clazz) ==
    IF current = 0 THEN loops
    ELSE IF isinstance(loops[current].class, clazz)
    THEN [loops EXCEPT ![current] = exit(@)]
    ELSE exit_to_repl_class_inclusive([loops EXCEPT ![current] = exit(@)],
                                      loops[current].parent_repl, clazz)

\* exit_to_repl_class that stops at the loop that has no parent.
RECURSIVE exit_to_repl_class_below_top(_, _, _)
exit_to_repl_class_below_top(loops, current, clazz) ==
    IF current # 0 /\ loops[current].parent_repl # 0
          /\ ~isinstance(loops[current].class, clazz)
    THEN exit_to_repl_class_below_top([loops EXCEPT ![current] = exit(@)],
                                      loops[current].parent_repl, clazz)
    ELSE loops

\* exit_to_repl_class with an if for its while: the caller alone is exited.
exit_to_repl_class_once(loops, current, clazz) ==
    IF current # 0 /\ ~isinstance(loops[current].class, clazz)
    THEN [loops EXCEPT ![current] = exit(@)]
    ELSE loops

\* Repl.exit_to_repl_class(clazz) called on loop current: the loops after the
\* while loop has run.  0 is None.
RECURSIVE exit_to_repl_class(_, _, _)
exit_to_repl_class(loops, current, clazz) ==
    IF current # 0 /\ ~isinstance(loops[current].class, clazz)
    THEN exit_to_repl_class([loops EXCEPT ![current] = exit(@)],
                            loops[current].parent_repl, clazz)
    ELSE loops

\* MatchBasedRepl.handle_command: the calls the for ... else makes, in order;
\* a handler is named by its place in self.matchers, unknown_command by 0.
unknown_command == 0

\* The for loop without its break: every matching handler is called, and the
\* else clause after them.
RECURSIVE for_matchers_no_break(_, _, _, _)
for_matchers_no_break(matchers, i, cmd, args) ==
    IF i > Len(matchers) THEN <<unknown_command>>
    ELSE (IF Call(matchers[i].matcher, cmd, args) THEN <<i>> ELSE <<>>)
             \o for_matchers_no_break(matchers, i + 1, cmd, args)

\* The for loop without its else clause.
RECURSIVE for_matchers_no_else(_, _, _, _)
for_matchers_no_else(matchers, i, cmd, args) ==
    IF i > Len(matchers) THEN <<>>
    ELSE IF Call(matchers[i].matcher, cmd, args) THEN <<i>>
    ELSE for_matchers_no_else(matchers, i + 1, cmd, args)

RECURSIVE for_matchers(_, _, _, _)
for_matchers(matchers, i, cmd, args) ==
    IF i > Len(matchers) THEN <<unknown_command>>
    ELSE IF Call(matchers[i].matcher, cmd, args) THEN <<i>>
    ELSE for_matchers(matchers, i + 1, cmd, args)

handle_command(repl, cmd, args) == for_matchers(repl.matchers, 1, cmd, args)

\* The test without "self.exit_command is not None".
is_exit_command_unguarded(repl, command_word) == command_word = tok("exit")

\* The test of Repl.run that makes the line the loop's exit command.
is_exit_command(repl, command_word) ==
    repl.exit_command # None /\ command_word = The(repl.exit_command)

\* -------------------------------------------------------------- the state

VARIABLES
    phase,                 \* "declared": before the module's classes exist;
                           \* "imported"; "config_error": a decorator raised;
                           \* "session": handle_client is in repl.run();
                           \* "done": it returned; "crashed": it raised
    declared,              \* the class body of DeclaredCommand
    handler_method_names,  \* command class -> the names @command recorded
    repls,                 \* the loop objects; a loop is named by its place
    stack,                 \* the run() calls in progress, outermost first
    trace,                 \* the last step: what was called, on which loop
    stdin,                 \* the session's input stream: "open", or "eof"
                           \* once the client has closed it
    session,               \* the session whose handle_client is executing
    other                  \* the session suspended meanwhile: its phase,
                           \* repls, stack and stdin

vars ==
    << phase, declared, handler_method_names, repls, stack, trace, stdin,
       session, other >>

\* The Client handle_client builds: one for each session.
TheClient == session

\* The prompt texts: cisco_prompt(False) and cisco_prompt(True, "config").
Prompts == {"hostname> ", "hostname(config)# "}

\* The lines a client types: every string of at most MaxLineLen characters.
Lines == UNION { [1..n -> Chars] : n \in 0..MaxLineLen }

\* The lines of a session that nests loops: one per way a line can go.
SessionLines ==
    { <<" ">>, <<"\"">>, <<"exit">>, <<"terminal">>, <<"configure">>,
      <<"configure", " ", "terminal">> }

Event(op, repl) ==
    [ op |-> op, repl |-> repl, text |-> "", outcome |-> "", cmd |-> <<>>,
      args |-> <<>>, calls |-> <<>>, clazz |-> "", line |-> <<>>,
      matcher |-> None ]

\* A run() call in progress.  pc is "loop" at the test of the while loop,
\* "reading" while client.prompt awaits the line, "handler" while the
\* handler called for the line executes, "await_run" while that handler
\* awaits the run() of the loop it entered.  self is the loop the handler was
\* given and child the loop it has built (0: none).
Frame(repl, pc, self, child) ==
    [repl |-> repl, pc |-> pc, self |-> self, child |-> child]

Top == stack[Len(stack)]

SetTop(frame) == [stack EXCEPT ![Len(stack)] = frame]

InHandler == phase = "session" /\ stack # <<>> /\ Top.pc = "handler"

\* A session whose handle_client has not been called.
NotStarted ==
    [phase |-> "imported", repls |-> <<>>, stack |-> <<>>, stdin |-> "open"]

Init0 ==
    /\ phase = "declared"
    /\ handler_method_names = [c \in CommandClasses |-> <<>>]
    /\ repls = <<>>
    /\ stack = <<>>
    /\ trace = Event("", 0)
    /\ stdin = "open"
    /\ session = 1
    /\ other = NotStarted

\* ------------------------------------------------------------- the actions

\* The application's module is imported: @command decorates every command
\* class.  A decorator that raises ends the import.
ImportModule ==
    /\ phase = "declared"
    /\ LET made == [c \in CommandClasses |-> command(ClassBody(c, declared))] IN
       IF \E c \in CommandClasses : made[c].raised # ""
       THEN /\ phase' = "config_error"
            /\ UNCHANGED handler_method_names
       ELSE /\ phase' = "imported"
            /\ handler_method_names' = [c \in CommandClasses |-> made[c].value]
    /\ trace' = Event("import", 0)
    /\ UNCHANGED <<declared, repls, stack>>
    /\ UNCHANGED <<stdin, session, other>>

\* handle_client with one Client built when the module is imported, for
\* every session.
HandleClientOneClient(classes) ==
    /\ phase = "imported"
    /\ \E cls \in classes, prompt \in Prompts :
          repls' = << NewRepl(1, cls, Len(<<"client">>), prompt, 0, declared,
                              handler_method_names) >>
    /\ stack' = << Frame(1, "loop", 0, 0) >>
    /\ phase' = "session"
    /\ trace' = Event("run", 1)
    /\ UNCHANGED <<declared, handler_method_names>>
    /\ UNCHANGED <<stdin, session, other>>

\* handle_client: client.enter_repl(prompt, repl_class) and repl.run().
HandleClient(classes) ==
    /\ phase = "imported"
    /\ \E cls \in classes, prompt \in Prompts :
          repls' = << NewRepl(1, cls, TheClient, prompt, 0, declared,
                              handler_method_names) >>
    /\ stack' = << Frame(1, "loop", 0, 0) >>
    /\ phase' = "session"
    /\ trace' = Event("run", 1)
    /\ UNCHANGED <<declared, handler_method_names>>
    /\ UNCHANGED <<stdin, session, other>>

\* The loop of Repl.run as "while True".
IssuePromptUntested ==
    /\ phase = "session" /\ stack # <<>>
    /\ Top.pc = "loop"
    /\ stack' = SetTop([Top EXCEPT !.pc = "reading"])
    /\ trace' = [Event("prompt", Top.repl) EXCEPT
                    !.text = repls[Top.repl].prompt,
                    !.outcome = IF trace.op = "return" THEN trace.outcome
                                ELSE ""]
    /\ UNCHANGED <<phase, declared, handler_method_names, repls>>
    /\ UNCHANGED <<stdin, session, other>>

\* The loop of Repl.run prompting with the text of the session's first loop,
\* as a prompt kept by the client would be.
IssuePromptOfTopLevel ==
    /\ phase = "session" /\ stack # <<>>
    /\ Top.pc = "loop"
    /\ repls[Top.repl].running
    /\ stack' = SetTop([Top EXCEPT !.pc = "reading"])
    /\ trace' = [Event("prompt", Top.repl) EXCEPT
                    !.text = repls[stack[1].repl].prompt,
                    !.outcome = IF trace.op = "return" THEN trace.outcome
                                ELSE ""]
    /\ UNCHANGED <<phase, declared, handler_method_names, repls>>
    /\ UNCHANGED <<stdin, session, other>>

\* Repl.run, the while test true: client.prompt(self.prompt) writes the
\* prompt and awaits the line.
IssuePrompt ==
    /\ phase = "session" /\ stack # <<>>
    /\ Top.pc = "loop"
    /\ repls[Top.repl].running
    /\ stack' = SetTop([Top EXCEPT !.pc = "reading"])
    /\ trace' = [Event("prompt", Top.repl) EXCEPT
                    !.text = repls[Top.repl].prompt,
                    !.outcome = IF trace.op = "return" THEN trace.outcome
                                ELSE ""]
    /\ UNCHANGED <<phase, declared, handler_method_names, repls>>
    /\ UNCHANGED <<stdin, session, other>>

\* Repl.run, the while test false: run() returns to the handler that awaits
\* it, or to handle_client.
RunReturn ==
    /\ phase = "session" /\ stack # <<>>
    /\ Top.pc = "loop"
    /\ ~repls[Top.repl].running
    /\ LET below == SubSeq(stack, 1, Len(stack) - 1) IN
       IF below = <<>>
       THEN stack' = <<>> /\ phase' = "done"
       ELSE /\ stack' = [below EXCEPT ![Len(below)].pc = "handler"]
            /\ phase' = phase
    /\ trace' = Event("run_return", Top.repl)
    /\ UNCHANGED <<declared, handler_method_names, repls>>
    /\ UNCHANGED <<stdin, session, other>>

\* The test without the "not": no line is taken for an empty one.
not_line_never(line) == FALSE

\* "not line", the test of Repl.run that skips the line.
not_line(line) == line = <<>>

\* Repl.run, from the line client.prompt returns to the end of the
\* iteration or to the call of the handler.
ReadLine(lines) ==
    /\ phase = "session" /\ stack # <<>>
    /\ Top.pc = "reading"
    /\ stdin = "open"
    /\ \E input \in lines :
         LET self == Top.repl
             line == strip(rstrip(input))
             parsed == parse_command(line)
             cmd == parsed.value.command_word
             args == parsed.value.arguments
             calls == handle_command(repls[self], cmd, args)
             ev == [Event("line", self) EXCEPT !.line = line]
         IN IF not_line(line)
            THEN /\ trace' = [ev EXCEPT !.outcome = "blank"]
                 /\ stack' = SetTop([Top EXCEPT !.pc = "loop"])
                 /\ UNCHANGED <<phase, repls>>
            ELSE IF parsed.raised # ""
            THEN /\ trace' = [ev EXCEPT !.outcome = parsed.raised]
                 /\ stack' = <<>>
                 /\ phase' = "crashed"
                 /\ UNCHANGED repls
            ELSE IF is_exit_command(repls[self], cmd)
            THEN /\ trace' = [ev EXCEPT !.outcome = "exit_command",
                                        !.cmd = cmd, !.args = args]
                 /\ repls' = [repls EXCEPT ![self] = exit(@)]
                 /\ stack' = SetTop([Top EXCEPT !.pc = "loop"])
                 /\ UNCHANGED phase
            ELSE /\ trace' = [ev EXCEPT !.outcome = "handle_command",
                                        !.cmd = cmd, !.args = args,
                                        !.calls = calls]
                 /\ stack' = SetTop(
                        IF calls = <<>> \/ Head(calls) = unknown_command
                        THEN [Top EXCEPT !.pc = "loop"]
                        ELSE [Top EXCEPT
                                !.pc = "handler",
                                !.self = repls[self].matchers[Head(calls)].handler.self])
                 /\ UNCHANGED <<phase, repls>>
    /\ UNCHANGED <<declared, handler_method_names>>
    /\ UNCHANGED <<stdin, session, other>>

\* What the stream raises when the connection is lost.
ConnectionLost == "ConnectionLost"

\* Repl.run, client.prompt raises: the read of the line (or the write of the
\* prompt) fails, and nothing between there and handle_client catches it.
ReadFails ==
    /\ phase = "session" /\ stack # <<>>
    /\ Top.pc = "reading"
    /\ trace' = [Event("line", Top.repl) EXCEPT !.outcome = ConnectionLost]
    /\ stack' = <<>>
    /\ phase' = "crashed"
    /\ UNCHANGED <<declared, handler_method_names, repls, stdin, session, other>>

\* Repl.run, the client has closed its side: stdin.readline() returns the
\* empty string at the end of the stream, now and at every later read, and
\* run() takes it as it takes an empty line.
ReadEof ==
    /\ phase = "session" /\ stack # <<>>
    /\ Top.pc = "reading"
    /\ stdin' = "eof"
    /\ LET line == strip(rstrip(<<>>)) IN
       /\ not_line(line)
       /\ trace' = [Event("line", Top.repl) EXCEPT !.outcome = "eof"]
       /\ stack' = SetTop([Top EXCEPT !.pc = "loop"])
    /\ UNCHANGED <<phase, declared, handler_method_names, repls, session, other>>

\* A handler calls repl.exit().
HandlerExit ==
    /\ InHandler
    /\ repls' = [repls EXCEPT ![Top.self] = exit(@)]
    /\ trace' = [Event("exit", Top.self) EXCEPT
                    !.outcome = IF trace.op = "exit" /\ trace.repl = Top.self
                                THEN "again" ELSE ""]
    /\ UNCHANGED <<phase, declared, handler_method_names, stack>>
    /\ UNCHANGED <<stdin, session, other>>

\* A handler calls repl.exit_to_repl_class(clazz).
HandlerExitTo ==
    /\ InHandler
    /\ \E clazz \in TargetClasses :
         /\ repls' = exit_to_repl_class(repls, Top.self, clazz)
         /\ trace' = [Event("exit_to_repl_class", Top.self) EXCEPT !.clazz = clazz]
    /\ UNCHANGED <<phase, declared, handler_method_names, stack>>
    /\ UNCHANGED <<stdin, session, other>>

\* enter_repl without parent_repl=self.
enter_repl_unparented(self, child, repl_class, prompt, declared_body, names) ==
    NewRepl(child, repl_class, repls[self].client, prompt, 0, declared_body,
            names)

\* Repl.enter_repl(prompt, repl_class) called on loop self: the new loop.
enter_repl(self, child, repl_class, prompt, declared_body, names) ==
    NewRepl(child, repl_class, repls[self].client, prompt, self, declared_body,
            names)

\* enter_repl where self.matchers is one list shared by the loops (a list
\* made at class level): the new loop's registration also extends the list
\* of the loop that builds it.
HandlerEnterSharedList(depth) ==
    /\ InHandler
    /\ Top.repl < depth
    /\ LET child == Top.repl + 1 IN
       /\ \E repl_class \in ReplClasses, prompt \in Prompts :
            LET new == enter_repl(Top.self, child, repl_class, prompt,
                                  declared, handler_method_names)
            IN /\ repls' = [SubSeq(repls, 1, Top.repl) EXCEPT
                               ![Top.self].matchers = @ \o new.matchers]
                               \o << new >>
               /\ trace' = [Event("enter_repl", child) EXCEPT
                               !.text = prompt, !.clazz = repl_class]
       /\ stack' = SetTop([Top EXCEPT !.child = child])
    /\ UNCHANGED <<phase, declared, handler_method_names>>
    /\ UNCHANGED <<stdin, session, other>>

\* A handler calls repl.enter_repl(prompt, repl_class) and keeps the loop it
\* returns (a loop it kept before is dropped).
HandlerEnter(depth) ==
    /\ InHandler
    /\ Top.repl < depth
    /\ LET child == Top.repl + 1 IN
       /\ \E repl_class \in ReplClasses, prompt \in Prompts :
            /\ repls' = SubSeq(repls, 1, Top.repl)
                          \o << enter_repl(Top.self, child, repl_class, prompt,
                                           declared, handler_method_names) >>
            /\ trace' = [Event("enter_repl", child) EXCEPT
                            !.text = prompt, !.clazz = repl_class]
       /\ stack' = SetTop([Top EXCEPT !.child = child])
    /\ UNCHANGED <<phase, declared, handler_method_names>>
    /\ UNCHANGED <<stdin, session, other>>

\* The handler starts the run() of the loop it has built without awaiting it
\* and goes on.
HandlerRunChildUnawaited ==
    /\ InHandler
    /\ Top.child # 0
    /\ stack' = Append(stack, Frame(Top.child, "loop", 0, 0))
    /\ trace' = Event("run", Top.child)
    /\ UNCHANGED <<phase, declared, handler_method_names, repls>>
    /\ UNCHANGED <<stdin, session, other>>

\* run() as a method that begins with "self.running = True": the awaited
\* loop is started again.
HandlerRunChildRestarts ==
    /\ InHandler
    /\ Top.child # 0
    /\ stack' = Append(SetTop([Top EXCEPT !.pc = "await_run"]),
                       Frame(Top.child, "loop", 0, 0))
    /\ repls' = [repls EXCEPT ![Top.child].running = TRUE]
    /\ trace' = Event("run", Top.child)
    /\ UNCHANGED <<phase, declared, handler_method_names>>
    /\ UNCHANGED <<stdin, session, other>>

\* A handler awaits the run() of the loop it has built.
HandlerRunChild ==
    /\ InHandler
    /\ Top.child # 0
    /\ stack' = Append(SetTop([Top EXCEPT !.pc = "await_run"]),
                       Frame(Top.child, "loop", 0, 0))
    /\ trace' = Event("run", Top.child)
    /\ UNCHANGED <<phase, declared, handler_method_names, repls>>
    /\ UNCHANGED <<stdin, session, other>>

\* A handler assigns repl.prompt.
HandlerSetPrompt ==
    /\ InHandler
    /\ \E prompt \in Prompts :
         /\ repls' = [repls EXCEPT ![Top.self].prompt = prompt]
         /\ trace' = [Event("set_prompt", Top.self) EXCEPT !.text = prompt]
    /\ UNCHANGED <<phase, declared, handler_method_names, stack>>
    /\ UNCHANGED <<stdin, session, other>>

\* The handler returns: handle_command breaks out of its for loop and the
\* iteration of run() ends.  The loop the handler built is dropped with it.
HandlerReturn ==
    /\ InHandler
    /\ stack' = SetTop(Frame(Top.repl, "loop", 0, 0))
    /\ repls' = SubSeq(repls, 1, Top.repl)
    /\ trace' = IF trace.op = "set_prompt"
                THEN [Event("return", Top.repl) EXCEPT
                         !.outcome = "prompt_assigned", !.text = trace.text]
                ELSE Event("return", Top.repl)
    /\ UNCHANGED <<phase, declared, handler_method_names>>
    /\ UNCHANGED <<stdin, session, other>>

\* The tokens of ordinary characters, and the sequences of at most
\* MaxLineLen of them.
Tokens == { tok(w) : w \in WordChars }

TokenSeqs == UNION { [1..n -> Tokens] : n \in 0..MaxLineLen }

\* A matcher built by match_on_cmd_starts_with is called with (cmd, args),
\* once in a behaviour.
CallMatcher ==
    /\ trace.op = ""
    /\ \E expected_cmd \in TokenSeqs, cmd \in Tokens, args \in TokenSeqs :
         LET matcher == match_on_cmd_starts_with(expected_cmd) IN
         trace' = [Event("match", 0) EXCEPT
                      !.matcher = Some(matcher), !.cmd = cmd, !.args = args,
                      !.outcome = IF Call(matcher, cmd, args)
                                  THEN "True" ELSE "False"]
    /\ UNCHANGED <<phase, declared, handler_method_names, repls, stack>>
    /\ UNCHANGED <<stdin, session, other>>

\* The session that executes awaits its line and the event loop resumes the
\* other session, which awaits its own line, has not started, or has ended.
\* The calls a handler makes (exit, exit_to_repl_class, enter_repl, an
\* assignment) do not await, and no session is resumed between them.
Switch ==
    /\ phase \in {"imported", "session", "done", "crashed"}
    /\ phase = "session" => Top.pc = "reading"
    /\ phase' = other.phase
    /\ repls' = other.repls
    /\ stack' = other.stack
    /\ stdin' = other.stdin
    /\ other' = [phase |-> phase, repls |-> repls, stack |-> stack,
                 stdin |-> stdin]
    /\ session' = 3 - session
    /\ trace' = Event("switch", 0)
    /\ UNCHANGED <<declared, handler_method_names>>

\* ------------------------------------------------------ the specifications

\* A session that nests loops, on the lines of SessionLines.
Init == Init0 /\ declared = DefaultDeclared

Next ==
    \/ ImportModule
    \/ HandleClient(ReplClasses)
    \/ IssuePrompt
    \/ ReadLine(SessionLines)
    \/ RunReturn
    \/ HandlerExit
    \/ HandlerExitTo
    \/ HandlerEnter(MaxDepth)
    \/ HandlerRunChild
    \/ HandlerSetPrompt
    \/ HandlerReturn
    \/ ReadFails
    \/ ReadEof

Spec == Init /\ [][Next]_vars

\* One loop, on every line.
NextDispatch ==
    \/ ImportModule
    \/ HandleClient(ReplClasses)
    \/ IssuePrompt
    \/ ReadLine(Lines)
    \/ RunReturn
    \/ HandlerExit
    \/ HandlerSetPrompt
    \/ HandlerReturn
    \/ ReadFails
    \/ ReadEof

SpecDispatch == Init /\ [][NextDispatch]_vars

\* One loop of DerivedRepl, on every line and on every class body of
\* DeclaredCommand.
InitCommand == Init0 /\ declared \in Declarations

NextCommand ==
    \/ ImportModule
    \/ HandleClient({"DerivedRepl"})
    \/ IssuePrompt
    \/ ReadLine(Lines)
    \/ RunReturn
    \/ HandlerExit
    \/ HandlerReturn
    \/ ReadFails
    \/ ReadEof

SpecCommand == InitCommand /\ [][NextCommand]_vars

\* The session of handle_client, which builds a TopLevelRepl, with handlers
\* that nest and leave loops and do not assign the prompt.
NextStack ==
    \/ ImportModule
    \/ HandleClient({"TopLevelRepl"})
    \/ IssuePrompt
    \/ ReadLine(SessionLines)
    \/ RunReturn
    \/ ReadFails
    \/ ReadEof
    \/ HandlerExit
    \/ HandlerExitTo
    \/ HandlerEnter(MaxDepth)
    \/ HandlerRunChild
    \/ HandlerReturn

SpecStack == Init /\ [][NextStack]_vars

\* Two sessions of handle_client, interleaved where they await a line, with
\* handlers that build loops and do not run them.
NextSessions ==
    \/ ImportModule
    \/ HandleClient({"TopLevelRepl"})
    \/ IssuePrompt
    \/ ReadLine(SessionLines)
    \/ RunReturn
    \/ ReadFails
    \/ ReadEof
    \/ HandlerExit
    \/ HandlerExitTo
    \/ HandlerEnter(MaxDepth)
    \/ HandlerSetPrompt
    \/ HandlerReturn
    \/ Switch

SpecSessions == Init /\ [][NextSessions]_vars

\* The same session, where a run() at its while test goes on and every
\* handler finishes: one that is able to return again and again, between the
\* calls it makes, does return.
SpecStackFair == SpecStack /\ WF_vars(RunReturn) /\ SF_vars(HandlerReturn)

\* The matchers of match_on_cmd_starts_with, on every expected sequence, word
\* and arguments of at most MaxLineLen tokens.
SpecMatcher == Init /\ [][CallMatcher]_vars

\* ------------------------------------------------------------- the claims

\* The last step handed a line to handle_command.
Dispatched(tr) == tr.op = "line" /\ tr.outcome = "handle_command"

\* The places of the pairs of repl.matchers whose matcher returns true.
Matching(repl, cmd, args) ==
    { i \in 1..Len(repl.matchers) : Call(repl.matchers[i].matcher, cmd, args) }

\* How many times calls names unknown_command.
Fallbacks(calls) ==
    Cardinality({ n \in 1..Len(calls) : calls[n] = unknown_command })

\* C1: when pair i is the first pair, in registration order, whose matcher
\* returns true for (word, args), handle_command calls handler i once and
\* calls nothing else, whatever pairs after i match too; the handler then
\* executes in the loop the line was read by.
C1_FirstMatchWins ==
    Dispatched(trace) =>
        LET matching == Matching(repls[trace.repl], trace.cmd, trace.args) IN
        \A i \in matching :
            (\A j \in matching : i <= j) =>
                /\ trace.calls = <<i>>
                /\ Top.pc = "handler"
                /\ Top.repl = trace.repl

\* A line two pairs match was dispatched to the first of them.
C1_Witness ==
    /\ Dispatched(trace)
    /\ \E i, k \in Matching(repls[trace.repl], trace.cmd, trace.args) :
          i < k /\ trace.calls = <<i>>

\* C2: handle_command calls the unknown-command fallback exactly once if and
\* only if no registered matcher returns true for (word, args); it then calls
\* no handler, nothing is raised, and the loops (running flag, prompt, parent,
\* dispatch list) are as they were, the loop at the test of its while loop.
C2_UnknownCommand ==
    [][ Dispatched(trace') =>
          LET repl == repls[trace'.repl]
              none == Matching(repl, trace'.cmd, trace'.args) = {}
          IN /\ Fallbacks(trace'.calls) = (IF none THEN 1 ELSE 0)
             /\ none => /\ trace'.calls = <<unknown_command>>
                        /\ phase' = "session"
                        /\ repls' = repls
                        /\ Len(stack') = Len(stack)
                        /\ stack'[Len(stack')].pc = "loop" ]_vars

\* A line no pair matches went to the fallback of a loop that has pairs.
C2_Witness ==
    /\ Dispatched(trace)
    /\ repls[trace.repl].matchers # <<>>
    /\ Matching(repls[trace.repl], trace.cmd, trace.args) = {}
    /\ trace.calls = <<unknown_command>>
    /\ Top.pc = "loop"

\* C5: when the loop's exit_command is set and the command word equals it,
\* run() stops the loop and calls neither a handler (even one whose matcher
\* accepts the word) nor the fallback; any other word, and every word of a
\* loop whose exit_command is None, goes to handle_command, which stops
\* nothing.
C5_ExitCommandBypass ==
    [][ (trace'.op = "line" /\ trace'.outcome \in {"exit_command", "handle_command"}) =>
          LET self == trace'.repl
              repl == repls[self]
          IN IF repl.exit_command # None /\ trace'.cmd = The(repl.exit_command)
             THEN /\ trace'.outcome = "exit_command"
                  /\ trace'.calls = <<>>
                  /\ repls' = [repls EXCEPT ![self].running = FALSE]
                  /\ stack'[Len(stack')].pc = "loop"
             ELSE /\ trace'.outcome = "handle_command"
                  /\ trace'.calls # <<>>
                  /\ repls' = repls ]_vars

\* The exit command stopped a loop that has a pair whose matcher accepts it.
C5_Witness ==
    /\ trace.op = "line" /\ trace.outcome = "exit_command"
    /\ Matching(repls[trace.repl], trace.cmd, trace.args) # {}
    /\ trace.calls = <<>>
    /\ ~repls[trace.repl].running

\* C6: a line the parser cannot parse goes to the unknown-command fallback:
\* nothing is raised out of run(), and the loop stays running at its level.
C6_ParseFailureIsUnknownCommand ==
    (trace.op = "line" /\ trace.outcome \in {ValueError, IndexError}) =>
        /\ phase = "session"
        /\ stack # <<>>
        /\ trace.calls = <<unknown_command>>
        /\ repls[trace.repl].running

\* The loops of the parent chain of loop i, i included.  0 is None.
RECURSIVE Chain(_, _)
Chain(loops, i) ==
    IF i = 0 THEN {} ELSE {i} \cup Chain(loops, loops[i].parent_repl)

\* The loops of the chain of i that come before the first loop of type clazz:
\* no loop from i up to them is of that type.
BeforeFirst(loops, i, clazz) ==
    { j \in Chain(loops, i) :
        \A k \in Chain(loops, i) :
            j \in Chain(loops, k) => ~isinstance(loops[k].class, clazz) }

\* C3: exit_to_repl_class(T) sets running to false on exactly the loops, from
\* the caller upward, that come before the first loop whose type matches T;
\* that loop, the loops above it and everything else stay as they were.
C3_ExitToReplClass ==
    [][ trace'.op = "exit_to_repl_class" =>
          /\ Len(repls') = Len(repls)
          /\ \A j \in 1..Len(repls) :
                repls'[j] =
                    IF j \in BeforeFirst(repls, trace'.repl, trace'.clazz)
                    THEN [repls[j] EXCEPT !.running = FALSE]
                    ELSE repls[j] ]_vars

\* Called from the innermost loop of a stack of three of which only the root
\* is of type T: the two others are stopped and the root runs.
C3_Witness ==
    /\ trace.op = "exit_to_repl_class" /\ trace.repl = 3
    /\ Len(stack) = 3
    /\ Chain(repls, 3) = {1, 2, 3}
    /\ isinstance(repls[1].class, trace.clazz)
    /\ ~isinstance(repls[2].class, trace.clazz)
    /\ ~isinstance(repls[3].class, trace.clazz)
    /\ repls[1].running /\ ~repls[2].running /\ ~repls[3].running

\* What a handler does, as trace names it.
HandlerOps ==
    {"exit", "exit_to_repl_class", "enter_repl", "run", "set_prompt", "return"}

\* C4: exit() called by a handler leaves the handler executing, on the same
\* line; a handler in flight goes on by its own steps whatever the running
\* flag is; only a loop that is running writes a prompt or takes a line; and
\* a loop that finds running false at its while test returns from run().
C4_ExitIsNotImmediate ==
    [][ /\ trace'.op = "exit" =>
              /\ stack' = stack
              /\ stack'[Len(stack')].pc = "handler"
              /\ ~repls'[trace'.repl].running
        /\ (InHandler /\ ~repls[Top.repl].running) => trace'.op \in HandlerOps
        /\ trace'.op \in {"prompt", "line"} => repls[trace'.repl].running
        /\ (stack # <<>> /\ Top.pc = "loop" /\ ~repls[Top.repl].running) =>
              /\ trace'.op = "run_return"
              /\ trace'.repl = Top.repl
              /\ Len(stack') = Len(stack) - 1 ]_vars

\* The handler that stopped its own loop went on to assign the prompt.
C4_Witness ==
    /\ InHandler
    /\ Top.self = Top.repl
    /\ ~repls[Top.repl].running
    /\ trace.op = "set_prompt"

\* Some handlers of the class body have an order and some have none.
Mixed(body) ==
    /\ \E i \in 1..Len(body) : body[i].order # None
    /\ \E i \in 1..Len(body) : body[i].order = None

\* C7: a command class whose handlers mix an order and no order raises when
\* the class is declared: no loop exists yet and no run() has been called;
\* a class whose handlers all have an order, or none has, or that has no
\* handler, raises nothing.
C7_MixedOrderRaises ==
    phase # "declared" =>
        /\ (phase = "config_error") <=> Mixed(declared)
        /\ phase = "config_error" =>
              /\ repls = <<>>
              /\ stack = <<>>
              /\ trace.op = "import"

\* The class body had one handler with an order and one without.
C7_Witness ==
    /\ phase = "config_error"
    /\ Len(declared) = 2
    /\ declared[1].order # None
    /\ declared[2].order = None

\* The places of the pairs of repl that its k-th command registered.
PairsOf(repl, k) ==
    { p \in 1..Len(repl.matchers) : repl.matchers[p].handler.command = k }

\* C8: when every handler of a command class has an order, the command's
\* pairs are in the dispatch list in ascending order of that value, one pair
\* per handler with the handler's own matcher, whatever the method names and
\* the order of declaration.
C8_RegisteredInAscendingOrder ==
    \A r \in 1..Len(repls) :
      \A k \in 1..Len(repls[r].commands) :
        LET body == ClassBody(repls[r].commands[k], declared)
            pairs == PairsOf(repls[r], k)
            m == repls[r].matchers
            OrderAt(p) == The(handler_data(body, m[p].handler.method).order)
        IN (\A i \in 1..Len(body) : body[i].order # None) =>
             /\ Cardinality(pairs) = Len(body)
             /\ \A i \in 1..Len(body) :
                   \E p \in pairs :
                       /\ m[p].handler.method = body[i].method_name
                       /\ m[p].matcher = body[i].matcher
             /\ \A p, q \in pairs : p < q => OrderAt(p) <= OrderAt(q)

\* "configure terminal" with order 1, declared after "configure" with order
\* 2 and under a name that sorts after it, took the line configure terminal.
C8_Witness ==
    /\ Len(declared) = 2
    /\ declared[1] = HandlerDecl("handle_configure", Some(2),
                                 match_on_cmd(tok("configure")))
    /\ declared[2] = HandlerDecl("handle_exit", Some(1),
                                 match_on_cmd_starts_with(
                                     <<tok("configure"), tok("terminal")>>))
    /\ Dispatched(trace)
    /\ trace.cmd = tok("configure") /\ trace.args = <<tok("terminal")>>
    /\ Len(trace.calls) = 1
    /\ trace.calls[1] # unknown_command
    /\ repls[trace.repl].matchers[trace.calls[1]].handler.method = "handle_exit"

\* C9: the dispatch list of a loop is the concatenation, in the order its
\* commands were registered, of each command's own sequence of pairs: the
\* pairs of the k-th command follow those of the commands before it, and are
\* the handlers of handler_method_names in that order.
C9_CommandsInRegistrationOrder ==
    \A r \in 1..Len(repls) :
        LET repl == repls[r]
            m == repl.matchers
            NamesOf(k) == handler_method_names[repl.commands[k]]
            Before(k) == Cardinality({ p \in 1..Len(m) : m[p].handler.command < k })
        IN /\ \A p \in 1..Len(m) : m[p].handler.command \in 1..Len(repl.commands)
           /\ \A p, q \in 1..Len(m) :
                 p < q => m[p].handler.command <= m[q].handler.command
           /\ \A k \in 1..Len(repl.commands) :
                 /\ Cardinality(PairsOf(repl, k)) = Len(NamesOf(k))
                 /\ \A n \in 1..Len(NamesOf(k)) :
                       /\ Before(k) + n \in PairsOf(repl, k)
                       /\ m[Before(k) + n].handler.method = NamesOf(k)[n]
                       /\ m[Before(k) + n].matcher =
                            handler_data(ClassBody(repl.commands[k], declared),
                                         NamesOf(k)[n]).matcher

\* A TopLevelRepl: exit, help, enable, disable, then the two of configure.
C9_Witness ==
    \E r \in 1..Len(repls) :
        /\ repls[r].class = "TopLevelRepl"
        /\ [p \in 1..Len(repls[r].matchers) |-> repls[r].matchers[p].handler.method]
             = << "handle_exit", "handle_help", "handle_enable", "handle_disable",
                  "handle_configure_terminal", "handle_configure" >>

\* C10: enter_repl(prompt, repl_class) gives a new loop of that class that is
\* running, has the given prompt, the caller's client and the caller as its
\* parent, and leaves the caller as it was; it does not start the loop: a
\* run() begins only where run() is called, and only a loop whose run() is
\* the innermost in progress writes a prompt or takes a line.
C10_EnterDoesNotRun ==
    [][ /\ trace'.op = "enter_repl" =>
              LET child == trace'.repl
                  caller == Top.self
              IN /\ repls'[child].class = trace'.clazz
                 /\ repls'[child].running
                 /\ repls'[child].prompt = trace'.text
                 /\ repls'[child].client = repls[caller].client
                 /\ repls'[child].parent_repl = caller
                 /\ repls'[caller] = repls[caller]
                 /\ \A f \in 1..Len(stack') : stack'[f].repl # child
                 /\ Len(stack') = Len(stack)
        /\ Len(stack') > Len(stack) => trace'.op = "run"
        /\ trace'.op \in {"prompt", "line"} => trace'.repl = Top.repl ]_vars

\* A handler holds a loop it has built and not run, with a prompt that is
\* not its own loop's.
C10_Witness ==
    /\ InHandler
    /\ trace.op = "enter_repl"
    /\ Top.child = trace.repl
    /\ repls[Top.child].running
    /\ repls[Top.child].parent_repl = Top.self
    /\ repls[Top.child].prompt # repls[Top.self].prompt
    /\ repls[Top.self].running

\* Every run() in progress but the innermost is suspended in a handler that
\* awaits the run() above it, and no loop has two run() calls in progress.
Suspended(frames) ==
    /\ \A f \in 1..(Len(frames) - 1) :
          /\ frames[f].pc = "await_run"
          /\ frames[f].child = frames[f + 1].repl
    /\ \A f, g \in 1..Len(frames) : frames[f].repl = frames[g].repl => f = g

\* C11: at most one loop of a session prompts or dispatches at a time, the
\* innermost whose run() is in progress: while the run() of a child started
\* by a parent's handler has not returned, the parent and every ancestor stay
\* suspended as they are, and a run() that returns resumes the handler right
\* beneath it and no other (last in, first out).
C11_InnermostLoopOnly ==
    [][ LET n == Len(stack) IN
        /\ Suspended(stack')
        /\ trace'.op \in {"prompt", "line"} =>
              /\ n > 0
              /\ trace'.repl = Top.repl
              /\ stack' # <<>> =>
                    /\ Len(stack') = n
                    /\ stack'[n].repl = Top.repl
                    /\ SubSeq(stack', 1, n - 1) = SubSeq(stack, 1, n - 1)
        /\ (n > 0 /\ Len(stack') > n) =>
              /\ trace'.op = "run"
              /\ stack' = Append([stack EXCEPT ![n].pc = "await_run"],
                                 stack'[n + 1])
        /\ (stack' # <<>> /\ Len(stack') < n) =>
              /\ trace'.op = "run_return"
              /\ trace'.repl = Top.repl
              /\ stack' = [SubSeq(stack, 1, n - 1) EXCEPT ![n - 1].pc = "handler"]
      ]_vars

\* The run() of a third loop has returned to the handler of the second, which
\* goes on while the first is still suspended.
C11_Witness ==
    /\ trace.op = "run_return" /\ trace.repl = 3
    /\ Len(stack) = 2
    /\ stack[1].pc = "await_run"
    /\ stack[2].pc = "handler"
    /\ repls[1].running /\ repls[2].running

\* C12: when the read of the Line Source fails, or the Line Source closes,
\* while the innermost loop awaits a line, the failure leaves that loop's
\* run() and the run() of every suspended ancestor: no run() is in progress
\* any more and the session has ended, so no loop prompts or dispatches again.
C12_ReadFailureUnwinds ==
    (trace.op = "line" /\ trace.outcome \in {ConnectionLost, "eof"}) =>
        /\ stack = <<>>
        /\ phase = "crashed"

\* C13: when the trimmed line is empty, run() goes back to the test of its
\* while loop: it calls no handler and no fallback, does not compare the line
\* with the exit command or hand it to the parser (which would raise on it),
\* and leaves every loop, with its running flag and its prompt, as it was.
C13_BlankLineReprompts ==
    [][ (trace'.op = "line" /\ trace'.outcome # ConnectionLost
            /\ trace'.line = <<>>) =>
          /\ trace'.outcome \in {"blank", "eof"}
          /\ trace'.calls = <<>>
          /\ trace'.cmd = <<>>
          /\ phase' = "session"
          /\ repls' = repls
          /\ stack' = SetTop([Top EXCEPT !.pc = "loop"]) ]_vars

\* A line of whitespace was read by a loop whose exit command is set; the
\* loop runs and is back at the test of its while loop.
C13_Witness ==
    /\ trace.op = "line" /\ trace.outcome = "blank"
    /\ stdin = "open"
    /\ Top.pc = "loop"
    /\ repls[Top.repl].exit_command # None
    /\ repls[Top.repl].running

\* C14: match_on_cmd_starts_with(e1..en) called with (word, args) returns
\* true exactly when [word] + args has at least n elements and its first n
\* elements are e1..en in that order: elements after the n-th never prevent
\* a match, and a sequence of fewer than n elements never matches.
C14_StartsWith ==
    trace.op = "match" =>
        LET expected == The(trace.matcher).expected_cmd
            n == Len(expected)
            entire == <<trace.cmd>> \o trace.args
        IN (trace.outcome = "True") <=>
              /\ Len(entire) >= n
              /\ \A i \in 1..n : entire[i] = expected[i]

\* Two expected tokens matched a word and two arguments.
C14_Witness ==
    /\ trace.op = "match" /\ trace.outcome = "True"
    /\ Len(The(trace.matcher).expected_cmd) = 2
    /\ Len(trace.args) = 2
    /\ trace.args[1] # trace.args[2]

\* C15: exit() called any number of times in succession leaves running
\* false, raises nothing, and changes nothing else of the loop (prompt,
\* parent, dispatch list), of any other loop, or of the run() calls in
\* progress: a second call changes nothing at all.
C15_ExitIdempotent ==
    [][ trace'.op = "exit" =>
          LET r == trace'.repl IN
          /\ repls' = [repls EXCEPT ![r] = [@ EXCEPT !.running = FALSE]]
          /\ ~repls'[r].running
          /\ ~repls[r].running => repls' = repls
          /\ trace'.outcome = "again" => repls' = repls
          /\ exit(exit(repls[r])) = exit(repls[r])
          /\ phase' = "session"
          /\ stack' = stack ]_vars

\* A handler has called exit() on its loop right after calling it.
C15_Witness ==
    /\ trace.op = "exit" /\ trace.outcome = "again"
    /\ InHandler
    /\ ~repls[trace.repl].running

\* C16: exit_to_repl_class(T) called on a loop whose own type matches T (is
\* T or a subclass of T) changes nothing: no loop of the chain, the caller
\* included, has its running flag changed, and no run() call is affected.
C16_ExitToOwnClass ==
    [][ (trace'.op = "exit_to_repl_class"
            /\ trace'.clazz \in Mro(repls[trace'.repl].class)) =>
          /\ repls' = repls
          /\ stack' = stack
          /\ phase' = "session" ]_vars

\* A ConfigureTerminalRepl nested in a TopLevelRepl was asked to exit to
\* CiscoRepl, the base class of both: both loops run.
C16_Witness ==
    /\ trace.op = "exit_to_repl_class" /\ trace.clazz = "CiscoRepl"
    /\ trace.repl = 2
    /\ Len(stack) = 2
    /\ repls[2].class = "ConfigureTerminalRepl"
    /\ repls[2].parent_repl = 1
    /\ repls[1].running /\ repls[2].running

\* What a session is made of, as it is kept while the session is suspended.
Current == [phase |-> phase, repls |-> repls, stack |-> stack, stdin |-> stdin]

FirstOfClass(loops, i, clazz) ==
    LET typed == Chain(loops, i) \ BeforeFirst(loops, i, clazz) IN
    { j \in typed : typed \subseteq Chain(loops, j) }

\* C18, as claimed: after a handler of the innermost loop has called
\* exit_to_repl_class(T) where an ancestor of type T exists, the loops before
\* that ancestor are stopped and the ancestor, which is to issue the next
\* prompt, is running.
C18_AncestorStillRunning ==
    (trace.op = "exit_to_repl_class" /\ InHandler /\ Top.self = trace.repl) =>
        \A a \in FirstOfClass(repls, trace.repl, trace.clazz) \ {trace.repl} :
            /\ \A j \in BeforeFirst(repls, trace.repl, trace.clazz) :
                  ~repls[j].running
            /\ repls[a].running

\* Loop a runs, and every run() in progress above its own is of a loop that
\* is stopped.
Unwound(a) ==
    /\ a \in 1..Len(stack)
    /\ repls[stack[a].repl].running
    /\ \A f \in (a + 1)..Len(stack) : ~repls[stack[f].repl].running

\* C18, amended: exit_to_repl_class(T) called by a handler of the innermost
\* loop, where an ancestor of type T exists, stops the loops before that
\* ancestor and leaves the ancestor's flag as it was.  Where the ancestor was
\* running: each exited loop returns from run() at its next while test
\* without prompting, the innermost first, and the handler suspended beneath
\* it resumes; as long as the resumed handlers do nothing but return, this
\* goes on, and the prompt that comes next is the ancestor's.
C18_ExitToAncestorUnwinds ==
    [][ \A a \in 1..Len(stack) :
          /\ (trace'.op = "exit_to_repl_class" /\ Top.self = Top.repl
                 /\ stack[a].repl # Top.repl
                 /\ stack[a].repl \in FirstOfClass(repls, Top.repl, trace'.clazz)) =>
                /\ repls'[stack[a].repl] = repls[stack[a].repl]
                /\ \A f \in (a + 1)..Len(stack) : ~repls'[stack[f].repl].running
                /\ stack' = stack
                /\ repls[stack[a].repl].running => Unwound(a)'
          /\ (Unwound(a) /\ Len(stack) > a /\ Top.pc = "loop") =>
                /\ trace'.op = "run_return"
                /\ trace'.repl = Top.repl
                /\ Len(stack') = Len(stack) - 1
                /\ stack'[Len(stack')].pc = "handler"
                /\ Unwound(a)'
          /\ (Unwound(a) /\ trace'.op = "return") => Unwound(a)'
          /\ (Unwound(a) /\ trace'.op = "prompt") =>
                /\ trace'.repl = stack[a].repl
                /\ Len(stack) = a ]_vars

\* On the way down from a third loop: its run() has returned to the handler
\* of the second loop, which was stopped while it was suspended, and the
\* first loop runs.
C18_Witness ==
    /\ trace.op = "run_return" /\ trace.repl = 3
    /\ Len(stack) = 2
    /\ Top.pc = "handler"
    /\ ~repls[2].running
    /\ Unwound(1)

\* A session is in progress and every loop whose run() is in progress is
\* stopped.
AllStopped ==
    /\ phase = "session"
    /\ stack # <<>>
    /\ \A f \in 1..Len(stack) : ~repls[stack[f].repl].running

\* A session is in progress and a loop whose run() is in progress runs.
SomeRunning ==
    /\ phase = "session"
    /\ \E f \in 1..Len(stack) : repls[stack[f].repl].running

C20_HandlerGetsOwningLoop ==
    /\ phase = "session" =>
         \A r \in 1..Len(repls) :
            \A i \in 1..Len(repls[r].matchers) :
                repls[r].matchers[i].handler.self = r
    /\ \A f \in 1..Len(stack) :
         stack[f].pc \in {"handler", "await_run"} =>
            stack[f].self = stack[f].repl
    /\ (trace.op = "line" /\ trace.outcome = "handle_command"
           /\ Head(trace.calls) # unknown_command) =>
         LET handler == repls[trace.repl].matchers[Head(trace.calls)].handler
             parsed == parse_command(trace.line)
         IN /\ Top.pc = "handler"
            /\ Top.repl = trace.repl
            /\ Top.self = trace.repl
            /\ handler.self = trace.repl
            /\ trace.cmd = parsed.value.command_word
            /\ trace.args = parsed.value.arguments

\* The child of a loop that registers ExitCommand too dispatches a line to
\* ExitCommand's handler, which is handed the child.
C20_Witness ==
    /\ phase = "session" /\ Len(stack) = 2
    /\ trace.op = "line" /\ trace.outcome = "handle_command"
    /\ trace.repl = 2
    /\ Head(trace.calls) # unknown_command
    /\ LET handler == repls[2].matchers[Head(trace.calls)].handler
       IN /\ repls[2].commands[handler.command] = "ExitCommand"
          /\ \E k \in 1..Len(repls[1].commands) :
                repls[1].commands[k] = "ExitCommand"
    /\ Top.pc = "handler" /\ Top.self = 2

\* C21: "stopped" is terminal.  A loop is built running; a loop that is
\* stopped stays stopped through every step of run, exit,
\* exit_to_repl_class, enter_repl and dispatch (enter_repl builds a new
\* loop, which is another object); and run() called on a stopped loop
\* returns at its while test, with no prompt, no line and no dispatch.
C21_StoppedIsTerminal ==
    [][
        /\ \A j \in 1..Len(repls) :
             (/\ ~repls[j].running
              /\ j <= Len(repls')
              /\ ~(trace'.op = "enter_repl" /\ trace'.repl = j)) =>
                 ~repls'[j].running
        /\ (trace'.op = "enter_repl" => repls'[trace'.repl].running)
        /\ ((trace'.op = "run" /\ phase = "imported") =>
               repls'[trace'.repl].running)
        /\ (trace.op = "run" /\ ~repls[trace.repl].running) =>
             /\ trace'.op = "run_return"
             /\ trace'.repl = trace.repl
             /\ repls' = repls
       ]_vars

\* A handler awaits run() on the loop it built a second time, after that
\* loop has stopped and its first run() has returned.
C21_Witness ==
    /\ phase = "session"
    /\ trace.op = "run" /\ trace.repl = 2
    /\ ~repls[2].running
    /\ Top.repl = 2 /\ Top.pc = "loop"

\* The dispatch list the constructor of loop j builds: the pairs of the
\* loop's commands, command by command.
Registered(loops, j) ==
    register_handlers(j, register_commands(loops[j].class), 1, declared,
                      handler_method_names)

\* C22: a loop's dispatch list is fixed once its construction finishes.  A
\* new loop holds the pairs its construction-time registration appended, in
\* that order; no step of run, dispatch, enter_repl, exit or
\* exit_to_repl_class adds, removes or reorders a pair of a loop that exists;
\* and every line is matched against that same list.
C22_DispatchListFixed ==
    [][
        /\ \A j \in 1..Len(repls) :
             (j <= Len(repls')
              /\ ~(trace'.op = "enter_repl" /\ trace'.repl = j)) =>
                 /\ repls'[j].matchers = repls[j].matchers
                 /\ repls'[j].commands = repls[j].commands
        /\ \A j \in 1..Len(repls') :
             repls'[j].matchers = Registered(repls', j)
        /\ (trace'.op = "line" /\ trace'.outcome = "handle_command") =>
             trace'.calls =
                 for_matchers(Registered(repls, trace'.repl), 1,
                              trace'.cmd, trace'.args)
       ]_vars

\* The second loop dispatches a line to one of its handlers after its parent
\* loop was stopped: enter_repl, run, a dispatch and an exit came before.
C22_Witness ==
    /\ phase = "session" /\ Len(stack) = 2
    /\ trace.op = "line" /\ trace.outcome = "handle_command"
    /\ trace.repl = 2
    /\ Head(trace.calls) # unknown_command
    /\ ~repls[1].running
    /\ repls[1].matchers # <<>>
    /\ repls[2].matchers = Registered(repls, 2)

\* C23: when no handler of a command class has an order, handler_method_names
\* holds the class's handler methods in the alphabetical order of their
\* names, whatever the order of declaration, and the command's pairs are in
\* every dispatch list in that order, each with its handler's own matcher;
\* SnmpCommand, which declares handle_snmp and then handle_no_snmp, registers
\* handle_no_snmp first.
C23_AlphabeticalWithoutOrder ==
    phase \notin {"declared", "config_error"} =>
        /\ \A c \in CommandClasses :
             LET body == ClassBody(c, declared)
                 names == handler_method_names[c]
             IN (\A i \in 1..Len(body) : body[i].order = None) =>
                  /\ Len(names) = Len(body)
                  /\ { names[i] : i \in 1..Len(names) }
                        = { body[i].method_name : i \in 1..Len(body) }
                  /\ \A i, j \in 1..Len(names) :
                        i < j => NameRank(names[i]) < NameRank(names[j])
        /\ handler_method_names.SnmpCommand = <<"handle_no_snmp", "handle_snmp">>
        /\ \A r \in 1..Len(repls) :
             \A k \in 1..Len(repls[r].commands) :
               LET body == ClassBody(repls[r].commands[k], declared)
                   pairs == PairsOf(repls[r], k)
                   m == repls[r].matchers
               IN (\A i \in 1..Len(body) : body[i].order = None) =>
                    /\ Cardinality(pairs) = Len(body)
                    /\ \A p \in pairs :
                          m[p].matcher
                              = handler_data(body, m[p].handler.method).matcher
                    /\ \A p, q \in pairs :
                          p < q => NameRank(m[p].handler.method)
                                       < NameRank(m[q].handler.method)

\* handle_exit and then handle_configure were declared, neither with an
\* order and both matching the word configure: the line configure went to
\* handle_configure, declared second and registered first.
C23_Witness ==
    /\ Len(declared) = 2
    /\ declared[1] = HandlerDecl("handle_exit", None,
                                 match_on_cmd(tok("configure")))
    /\ declared[2] = HandlerDecl("handle_configure", None,
                                 match_on_cmd(tok("configure")))
    /\ Dispatched(trace)
    /\ trace.cmd = tok("configure")
    /\ Len(trace.calls) = 1
    /\ trace.calls[1] # unknown_command
    /\ repls[trace.repl].matchers[trace.calls[1]].handler.method
          = "handle_configure"

\* C24: each prompt is written with the loop's prompt text as it is when the
\* iteration starts.  A handler's assignment changes the prompt of the loop
\* it was handed and nothing else, of that loop or of any other; and when
\* the handler returns after the assignment, the next prompt, if the loop
\* issues one, is that loop's and shows the assigned text.
C24_PromptIsCurrentText ==
    [][
        /\ trace'.op = "prompt" =>
             /\ trace'.repl = Top.repl
             /\ trace'.text = repls[Top.repl].prompt
             /\ repls' = repls
        /\ trace'.op = "set_prompt" =>
             /\ trace'.repl = Top.repl
             /\ repls' = [repls EXCEPT ![Top.repl].prompt = trace'.text]
        /\ (trace.op = "set_prompt" /\ trace'.op = "return") =>
             /\ trace'.repl = trace.repl
             /\ repls'[trace.repl].prompt = trace.text
        /\ (trace.op = "return" /\ trace.outcome = "prompt_assigned"
               /\ trace'.op = "prompt") =>
             /\ trace'.repl = trace.repl
             /\ trace'.text = trace.text
       ]_vars

\* The second loop prompts with the text a handler has just assigned to it,
\* while the prompt of the first loop, suspended beneath it, is another.
C24_Witness ==
    /\ phase = "session" /\ Len(stack) = 2
    /\ trace.op = "prompt" /\ trace.outcome = "prompt_assigned"
    /\ trace.repl = 2
    /\ trace.text = "hostname(config)# "
    /\ repls[2].prompt = "hostname(config)# "
    /\ repls[1].prompt = "hostname> "

====
